---------------------------- MODULE Spec2Model ----------------------------
(***************************************************************************)
(* A model of eensy.py: an in-memory inverted index over plain-text        *)
(* documents (Index.add_doc), TF-IDF ranked search (Index.search with      *)
(* Index.lookup and Index.idf) and the on-disk writer (Index.save).        *)
(*                                                                         *)
(* Representation.                                                         *)
(*  - A character is its Unicode code point (an integer); a word, a        *)
(*    filename and a text file's content are sequences of code points.     *)
(*  - A text (a document's text, a query) is the sequence of its           *)
(*    whitespace-separated raw words, i.e. what str.split() returns.       *)
(*  - self.terms, locs_in_file and file_scores are Python dicts, which     *)
(*    iterate in insertion order: each is a sequence of entries in         *)
(*    insertion order.                                                     *)
(*  - A Loc's document is the Document object; the model holds its id.     *)
(*  - A score is a Python float.  The model holds the real number it       *)
(*    approximates, scaled to an integer: ScoreScale * 10^4 * score, with  *)
(*    natural logarithms given to four decimals and kept consistent with   *)
(*    ln(a*b) = ln a + ln b, so that the order of two scores and their     *)
(*    equality are those of the real numbers.                              *)
(***************************************************************************)
EXTENDS Integers, Sequences, FiniteSets

(***************************************************************************)
(* Bounds of the model.                                                    *)
(***************************************************************************)
\* add_doc is called at most MaxDocs times.
MaxDocs == 3
\* The corpus holds at most MaxCorpus tokens; a text passed to add_doc is no
\* longer than what is left of that budget.
MaxCorpus == 4

(***************************************************************************)
(* The vocabulary the environment draws raw words from.                    *)
(***************************************************************************)
\* "A": lower-cases to the stop word "a".
wA == <<65>>
\* "--": holds no alphanumeric character.
wDash == <<45, 45>>
\* "X": lower-cases to the term "x".
wX == <<88>>
\* "e" with an acute accent (U+00E9): alphabetic, two bytes in UTF-8.
wE == <<233>>
\* "q7": a query word that no document holds.
wQ == <<113, 55>>

RawWords == {wA, wDash, wX, wE}

\* "d.txt"
Filenames == { <<100, 46, 116, 120, 116>> }

\* Every text of at most n raw words.
TextsUpTo(n) == UNION { [1..k -> RawWords] : k \in 0..n }

Queries ==
    { <<>>, <<wA, wDash>>, <<wX>>, <<wE>>, <<wQ>>, <<wX, wE>>, <<wE, wX>>,
      <<wX, wX>>, <<wQ, wE>> }

Limits == (-2)..MaxDocs

(***************************************************************************)
(* tokens(text)                                                            *)
(***************************************************************************)
STOP_WORDS ==
    { <<116,104,101>>, <<111,102>>, <<105,110>>, <<97,110,100>>, <<116,111>>,
      <<97>>, <<97,110>>, <<119,97,115>>, <<102,111,114>>, <<111,110>>,
      <<119,105,116,104>>, <<105,115>>, <<98,121>>, <<97,115>>, <<97,116>>,
      <<102,114,111,109>>, <<116,104,97,116>>, <<105,116>>,
      <<119,101,114,101>>, <<97,114,101>>, <<104,97,115>>, <<104,97,100>>,
      <<97,108,115,111>>, <<105,116,115>>, <<116,104,105,115>>,
      <<109,97,121>>, <<98,101>>, <<111,114>> }

\* str.lower() on one character, for the Latin-1 range.
LowerChar(c) ==
    IF c \in 65..90 \/ (c \in 192..222 /\ c # 215) THEN c + 32 ELSE c

Lower(word) == [i \in 1..Len(word) |-> LowerChar(word[i])]

\* c.isalpha() or c.isdigit(), for the Latin-1 range.
IsAlnum(c) ==
    \/ c \in 48..57
    \/ c \in 65..90
    \/ c \in 97..122
    \/ c \in {170, 178, 179, 181, 185, 186}
    \/ (c \in 192..255 /\ c # 215 /\ c # 247)

\* Whether tokens() yields the (lower-cased) word.
Keeps(word) ==
    /\ \E i \in 1..Len(word) : IsAlnum(word[i])
    /\ word \notin STOP_WORDS

RECURSIVE tokens(_)
tokens(text) ==
    IF text = <<>> THEN <<>>
    ELSE LET word == Lower(Head(text))
         IN  (IF Keeps(word) THEN <<word>> ELSE <<>>) \o tokens(Tail(text))


(***************************************************************************)
(* The state.                                                              *)
(***************************************************************************)
VARIABLES
    documents,      \* self.documents: the Document objects, in id order
    terms,          \* self.terms: entries [word, locs] in insertion order
    pc,             \* the caller: "idle", or "done" holding a call's outcome
    op,             \* the call made last: "add_doc", "search", "save"
    query,          \* search's query
    limit,          \* search's limit
    outcome,        \* "ok", or the exception the call raised
    results,        \* what search returned
    documents_txt,  \* the content save wrote to documents.txt
    index_dat,      \* the bytes save wrote to index.dat
    directory,      \* save's directory list: <<word, offset, nbytes>>
    width,          \* the bytes per integer of the postings save encoded
    directory_txt   \* the content save wrote to directory.txt

index == <<documents, terms>>
vars == <<documents, terms, pc, op, query, limit, outcome, results,
          documents_txt, index_dat, directory, width, directory_txt>>

(***************************************************************************)
(* Document and Index.add_doc                                              *)
(***************************************************************************)
\* ".txt"
DotTxt == <<46, 116, 120, 116>>

\* filename.replace(".txt", ""): every occurrence is removed.
RECURSIVE ReplaceDotTxt(_)
ReplaceDotTxt(s) ==
    IF s = <<>> THEN <<>>
    ELSE IF Len(s) >= 4 /\ SubSeq(s, 1, 4) = DotTxt
         THEN ReplaceDotTxt(SubSeq(s, 5, Len(s)))
         ELSE <<Head(s)>> \o ReplaceDotTxt(Tail(s))

\* Document.__init__
Document(id, filename) ==
    [id |-> id, name |-> ReplaceDotTxt(filename), filename |-> filename,
     max_tf |-> 0]

\* locs_in_file[word].offsets.append(i), on a defaultdict that creates
\* Loc(doc, []) at the first use of a word.
AppendOffset(locs, word, i) ==
    IF \E k \in 1..Len(locs) : locs[k].word = word
    THEN [k \in 1..Len(locs) |->
              IF locs[k].word = word
              THEN [locs[k] EXCEPT !.offsets = Append(@, i)]
              ELSE locs[k]]
    ELSE Append(locs, [word |-> word, offsets |-> <<i>>])

\* The loop over enumerate(tokens(text)), from position i (0-based) on.
RECURSIVE EnumerateFrom(_, _, _)
EnumerateFrom(locs, toks, i) ==
    IF i >= Len(toks) THEN locs
    ELSE EnumerateFrom(AppendOffset(locs, toks[i + 1], i), toks, i + 1)

\* A buggy variant: a new entry for every occurrence of a word.
locs_in_file_PerOccurrence(toks) ==
    [i \in 1..Len(toks) |-> [word |-> toks[i], offsets |-> <<i - 1>>]]

\* locs_in_file once the loop has ended: entries [word, offsets] in the
\* order the words first occur in.
locs_in_file(toks) == EnumerateFrom(<<>>, toks, 0)

Max(S) == CHOOSE m \in S : \A n \in S : n <= m

\* A buggy variant: the number of distinct words of the document.
max_tf_Distinct(locs) == Len(locs)

\* max(len(loc.offsets) for loc in locs_in_file.values()), for a non-empty
\* locs_in_file; max() of an empty sequence raises ValueError.
max_tf(locs) == Max({Len(locs[k].offsets) : k \in 1..Len(locs)})

\* self.terms[word].append(loc), on a defaultdict(list).
AppendLoc(ts, word, loc) ==
    IF \E k \in 1..Len(ts) : ts[k].word = word
    THEN [k \in 1..Len(ts) |->
              IF ts[k].word = word
              THEN [ts[k] EXCEPT !.locs = Append(@, loc)]
              ELSE ts[k]]
    ELSE Append(ts, [word |-> word, locs |-> <<loc>>])

\* The loop over locs_in_file.items(), from entry k on.
RECURSIVE AppendLocsFrom(_, _, _, _)
AppendLocsFrom(ts, locs, id, k) ==
    IF k > Len(locs) THEN ts
    ELSE AppendLocsFrom(
             AppendLoc(ts, locs[k].word,
                       [document |-> id, offsets |-> locs[k].offsets]),
             locs, id, k + 1)

RECURSIVE SumOf(_)
SumOf(s) == IF s = <<>> THEN 0 ELSE Head(s) + SumOf(Tail(s))

\* The number of tokens the index holds.
CorpusTokens(ts) ==
    SumOf([k \in 1..Len(ts) |->
               SumOf([n \in 1..Len(ts[k].locs) |->
                          Len(ts[k].locs[n].offsets)])])

NoCall ==
    /\ query' = <<>>
    /\ limit' = 0
    /\ results' = <<>>

NoFiles ==
    /\ documents_txt' = <<>>
    /\ index_dat' = <<>>
    /\ directory' = <<>>
    /\ width' = 0
    /\ directory_txt' = <<>>

\* Index.add_doc(filename, text).  The document is appended before the text
\* is tokenized; with no token, max() raises ValueError and the call ends
\* there.
add_doc(filename, text) ==
    /\ pc = "idle"
    /\ Len(documents) < MaxDocs
    /\ LET id   == Len(documents)
           doc  == Document(id, filename)
           locs == locs_in_file(tokens(text))
       IN  IF locs = <<>>
           THEN /\ documents' = Append(documents, doc)
                /\ terms' = terms
                /\ outcome' = "ValueError"
           ELSE /\ documents' =
                       Append(documents, [doc EXCEPT !.max_tf = max_tf(locs)])
                /\ terms' = AppendLocsFrom(terms, locs, id, 1)
                /\ outcome' = "ok"
    /\ pc' = "done"
    /\ op' = "add_doc"
    /\ NoCall
    /\ NoFiles

(***************************************************************************)
(* Index.lookup, Index.idf and Index.search                                *)
(***************************************************************************)
\* self.terms.get(term, []): the posting list of a term, [] for a term the
\* index does not hold.
lookup(ts, term) ==
    IF \E k \in 1..Len(ts) : ts[k].word = term
    THEN ts[CHOOSE k \in 1..Len(ts) : ts[k].word = term].locs
    ELSE <<>>

\* A buggy variant: self.terms[term], which on a defaultdict(list) stores an
\* empty posting list under a term it does not hold.
terms_after_getitem(ts, term) ==
    IF \E k \in 1..Len(ts) : ts[k].word = term
    THEN ts
    ELSE Append(ts, [word |-> term, locs |-> <<>>])

\* self.terms once lookup(term) has returned: dict.get stores nothing.
terms_after_lookup(ts, term) == ts

\* self.terms after the lookups search makes for the query's words: one in
\* search, and one more in idf for a word with postings.
RECURSIVE terms_after_search(_, _)
terms_after_search(ts, words) ==
    IF words = <<>> THEN ts
    ELSE LET t1 == terms_after_lookup(ts, Head(words))
             t2 == IF lookup(t1, Head(words)) # <<>>
                   THEN terms_after_lookup(t1, Head(words))
                   ELSE t1
         IN  terms_after_search(t2, Tail(words))

\* 10^4 * ln(n), with ln(a*b) = ln(a) + ln(b) kept exact.
Ln(n) ==
    CASE n = 1 -> 0
      [] n = 2 -> 6931
      [] n = 3 -> 10986
      [] n = 4 -> 2 * 6931
      [] n = 5 -> 16094
      [] n = 6 -> 6931 + 10986
      [] n = 7 -> 19459
      [] n = 8 -> 3 * 6931

\* Index.idf(term): math.log(1/df) with df = len(locs) / len(self.documents),
\* that is ln(N / len(locs)); None for a term without postings.
idf(ts, docs, term) ==
    LET locs == lookup(ts, term)
    IN  IF locs # <<>> THEN Ln(Len(docs)) - Ln(Len(locs)) ELSE "None"

RECURSIVE Gcd(_, _)
Gcd(a, b) == IF b = 0 THEN a ELSE Gcd(b, a % b)

RECURSIVE LcmUpTo(_)
LcmUpTo(n) ==
    IF n <= 1 THEN 1 ELSE LET l == LcmUpTo(n - 1) IN (l * n) \div Gcd(l, n)

\* Scores are held multiplied by ScoreScale (and by the 10^4 of Ln): a
\* multiple of every max_tf the model reaches, which makes tf an integer.
ScoreScale == LcmUpTo(MaxCorpus)

\* tf = 100 * len(loc.offsets) / loc.document.max_tf, times ScoreScale.
tf(loc, docs) ==
    100 * Len(loc.offsets) * (ScoreScale \div docs[loc.document + 1].max_tf)

\* tf * idf
tf_idf(loc, docs, w) == tf(loc, docs) * w

\* file_scores[document] += x, on a defaultdict(float).
AddScore(fs, document, x) ==
    IF \E k \in 1..Len(fs) : fs[k].document = document
    THEN [k \in 1..Len(fs) |->
              IF fs[k].document = document
              THEN [fs[k] EXCEPT !.score = @ + x]
              ELSE fs[k]]
    ELSE Append(fs, [document |-> document, score |-> 0 + x])

\* The loop over the postings of one word, from posting k on.
RECURSIVE ScoreLocs(_, _, _, _, _)
ScoreLocs(fs, locs, docs, w, k) ==
    IF k > Len(locs) THEN fs
    ELSE ScoreLocs(AddScore(fs, locs[k].document, tf_idf(locs[k], docs, w)),
                   locs, docs, w, k + 1)

\* The loop over tokens(query).
RECURSIVE ScoreWords(_, _, _, _)
ScoreWords(fs, words, ts, docs) ==
    IF words = <<>> THEN fs
    ELSE LET locs == lookup(ts, Head(words))
         IN  ScoreWords(
                 IF locs # <<>>
                 THEN ScoreLocs(fs, locs, docs, idf(ts, docs, Head(words)), 1)
                 ELSE fs,
                 Tail(words), ts, docs)

\* Where a division of search has a zero divisor: len(self.documents) in
\* idf, loc.document.max_tf in tf.
DividesByZero(words, ts, docs) ==
    \E i \in 1..Len(words) :
        LET locs == lookup(ts, words[i])
        IN  /\ locs # <<>>
            /\ \/ Len(docs) = 0
               \/ \E k \in 1..Len(locs) : docs[locs[k].document + 1].max_tf = 0

\* One step of a stable sort by descending score: r goes behind every
\* element whose score is not smaller.
InsertDesc(sorted, r) ==
    LET n == Cardinality({k \in 1..Len(sorted) : sorted[k].score >= r.score})
    IN  SubSeq(sorted, 1, n) \o <<r>> \o SubSeq(sorted, n + 1, Len(sorted))

\* results.sort(key=lambda pair: pair.score, reverse=True): list.sort is
\* stable, and with reverse=True keeps equal elements in their order.
RECURSIVE SortDesc(_)
SortDesc(rs) ==
    IF rs = <<>> THEN <<>>
    ELSE InsertDesc(SortDesc(SubSeq(rs, 1, Len(rs) - 1)), rs[Len(rs)])

\* A buggy variant: one element too many.
Slice_OffByOne(rs, k) ==
    IF k >= 0
    THEN SubSeq(rs, 1, IF k + 1 < Len(rs) THEN k + 1 ELSE Len(rs))
    ELSE SubSeq(rs, 1, IF Len(rs) + k > 0 THEN Len(rs) + k ELSE 0)

\* results[:limit]: the first limit elements; with a negative limit, all
\* but the last -limit elements.
Slice(rs, k) ==
    IF k >= 0
    THEN SubSeq(rs, 1, IF k < Len(rs) THEN k ELSE Len(rs))
    ELSE SubSeq(rs, 1, IF Len(rs) + k > 0 THEN Len(rs) + k ELSE 0)

\* The (document, score) pairs of file_scores.items() for a query.
FileScores(q, ts, docs) == ScoreWords(<<>>, tokens(q), ts, docs)

\* Index.search(query, limit)
search(q, k) ==
    /\ pc = "idle"
    /\ LET words == tokens(q)
       IN  /\ terms' = terms_after_search(terms, words)
           /\ IF DividesByZero(words, terms, documents)
              THEN /\ outcome' = "ZeroDivisionError"
                   /\ results' = <<>>
              ELSE /\ outcome' = "ok"
                   /\ results' =
                          Slice(SortDesc(FileScores(q, terms, documents)), k)
    /\ pc' = "done"
    /\ op' = "search"
    /\ query' = q
    /\ limit' = k
    /\ NoFiles
    /\ UNCHANGED documents

(***************************************************************************)
(* Index.save                                                              *)
(***************************************************************************)
\* str(n) for n >= 0, as "{}".format(n) writes it.
RECURSIVE Digits(_)
Digits(n) ==
    IF n < 10 THEN <<48 + n>> ELSE Digits(n \div 10) \o <<48 + (n % 10)>>

\* "{},{},{}".format(a, b, c): no line terminator follows the third field.
Format3(a, b, c) == a \o <<44>> \o b \o <<44>> \o c

\* What the loop over self.documents writes to documents.txt, from k on.
RECURSIVE WriteDocuments(_, _)
WriteDocuments(docs, k) ==
    IF k > Len(docs) THEN <<>>
    ELSE Format3(docs[k].name, docs[k].filename, Digits(docs[k].max_tf))
             \o WriteDocuments(docs, k + 1)

\* One character's UTF-8 bytes, up to U+07FF.
Utf8Char(c) ==
    IF c < 128 THEN <<c>> ELSE <<192 + (c \div 64), 128 + (c % 64)>>

\* word.encode('utf-8')
RECURSIVE Utf8(_)
Utf8(word) ==
    IF word = <<>> THEN <<>> ELSE Utf8Char(Head(word)) \o Utf8(Tail(word))

\* The posting bytes appended to bits are not given by the source (line 99
\* holds a placeholder).  They are modelled as the layout the design asks
\* for: (document id, offset count, offsets...) in fixed-size binary
\* integers, most significant byte first, of a width w the writer chooses.
Widths == {1, 2, 4}

RECURSIVE IntBytes(_, _)
IntBytes(n, w) ==
    IF w = 0 THEN <<>> ELSE IntBytes(n \div 256, w - 1) \o <<n % 256>>

RECURSIVE IntsBytes(_, _)
IntsBytes(ns, w) ==
    IF ns = <<>> THEN <<>>
    ELSE IntBytes(Head(ns), w) \o IntsBytes(Tail(ns), w)

\* The bytes of one posting.
EncodeLoc(loc, w) ==
    IntBytes(loc.document, w) \o IntBytes(Len(loc.offsets), w)
        \o IntsBytes(loc.offsets, w)

\* The loop over one term's postings, from posting k on.
RECURSIVE EncodeLocs(_, _, _)
EncodeLocs(locs, k, w) ==
    IF k > Len(locs) THEN <<>>
    ELSE EncodeLoc(locs[k], w) \o EncodeLocs(locs, k + 1, w)

\* bits, when it is written: the term, a newline, the term's postings.
Bits(word, locs, w) == Utf8(word) \o <<10>> \o EncodeLocs(locs, 1, w)

\* A buggy variant: the newline byte is not counted.
Advance_NoNewline(bytes_written, bits) == bytes_written + Len(bits) - 1

\* bytes_written += len(bits)
Advance(bytes_written, bits) == bytes_written + Len(bits)

\* The loop over self.terms.items(), from entry k on, with acc holding
\* directory, the bytes written to index.dat so far and bytes_written.
RECURSIVE WriteIndex(_, _, _, _)
WriteIndex(ts, k, w, acc) ==
    IF k > Len(ts) THEN acc
    ELSE LET bits == Bits(ts[k].word, ts[k].locs, w)
         IN  WriteIndex(ts, k + 1, w,
                 [directory |->
                      Append(acc.directory,
                             <<ts[k].word, acc.bytes_written, Len(bits)>>),
                  dat |-> acc.dat \o bits,
                  bytes_written |-> Advance(acc.bytes_written, bits)])

\* What the loop over directory writes to directory.txt, from k on.
RECURSIVE WriteDirectory(_, _)
WriteDirectory(dir, k) ==
    IF k > Len(dir) THEN <<>>
    ELSE Format3(dir[k][1], Digits(dir[k][2]), Digits(dir[k][3]))
             \o WriteDirectory(dir, k + 1)

\* Index.save(index_dir)
save(w) ==
    /\ pc = "idle"
    /\ LET written ==
               WriteIndex(terms, 1, w,
                          [directory |-> <<>>, dat |-> <<>>,
                           bytes_written |-> 0])
       IN  /\ documents_txt' = WriteDocuments(documents, 1)
           /\ index_dat' = written.dat
           /\ directory' = written.directory
           /\ width' = w
           /\ directory_txt' = WriteDirectory(written.directory, 1)
    /\ pc' = "done"
    /\ op' = "save"
    /\ outcome' = "ok"
    /\ NoCall
    /\ UNCHANGED index

\* The caller takes the outcome of the call and is ready for the next one.
\* The variables of a call (its arguments, its outcome, what it returned or
\* wrote) hold a value from the call's end to this step only.
Return ==
    /\ pc = "done"
    /\ pc' = "idle"
    /\ op' = "none"
    /\ outcome' = "none"
    /\ NoCall
    /\ NoFiles
    /\ UNCHANGED index

Init ==
    /\ documents = <<>>
    /\ terms = <<>>
    /\ pc = "idle"
    /\ op = "none"
    /\ query = <<>>
    /\ limit = 0
    /\ outcome = "none"
    /\ results = <<>>
    /\ documents_txt = <<>>
    /\ index_dat = <<>>
    /\ directory = <<>>
    /\ width = 0
    /\ directory_txt = <<>>

Next ==
    \/ \E filename \in Filenames :
           \E text \in TextsUpTo(MaxCorpus - CorpusTokens(terms)) :
               add_doc(filename, text)
    \/ \E q \in Queries : \E k \in Limits : search(q, k)
    \/ \E w \in Widths : save(w)
    \/ Return

Spec == Init /\ [][Next]_vars

(***************************************************************************)
(* Properties.                                                             *)
(***************************************************************************)
Searched == pc = "done" /\ op = "search"
Saved == pc = "done" /\ op = "save"

\* The words of the index, and the ids of the documents that hold a word.
Words == {terms[k].word : k \in 1..Len(terms)}
EntryLocs(k) == {terms[k].locs[n] : n \in 1..Len(terms[k].locs)}
DocsOf(word) ==
    UNION {{loc.document : loc \in EntryLocs(k)} :
               k \in {j \in 1..Len(terms) : terms[j].word = word}}

\* The documents that hold at least one word of the last query.
Matching ==
    UNION {DocsOf(tokens(query)[i]) : i \in 1..Len(tokens(query))}

ResultDocs == {results[i].document : i \in 1..Len(results)}

\* C1: search returns only documents whose score is strictly greater than 0;
\* a document that matches only through terms every document holds is not
\* returned.
C1_OnlyPositiveScores ==
    Searched => \A i \in 1..Len(results) : results[i].score > 0

\* C2: the list search returns is sorted by descending score, and two
\* results of equal score are in ingestion order, the smaller id first.
C2_SortedTiesByIngestion ==
    Searched =>
        \A i, j \in 1..Len(results) :
            i < j =>
                /\ results[i].score >= results[j].score
                /\ results[i].score = results[j].score
                       => results[i].document < results[j].document

\* C3: for a limit k >= 0, search returns at most k results, none when
\* k = 0, and when k is at least the number of matching documents, every
\* matching document exactly once and nothing else.
C3_Limit ==
    (Searched /\ limit >= 0) =>
        /\ outcome = "ok"
        /\ Len(results) <= limit
        /\ limit = 0 => results = <<>>
        /\ limit >= Cardinality(Matching) =>
               /\ ResultDocs = Matching
               /\ Len(results) = Cardinality(Matching)

\* C3's case: a search whose limit cut the list of matching documents, and
\* that still returned something.
C3_Witness ==
    /\ Searched
    /\ limit >= 1
    /\ Cardinality(Matching) > limit
    /\ Len(results) = limit

\* C4: search with a negative limit ends in an error and returns no list.
C4_NegativeLimitIsError ==
    (Searched /\ limit < 0) => outcome # "ok"

\* C5: an add_doc call that fails (its text yields no token) leaves the
\* document list and the term map as they were before the call.
C5_FailedAddDocChangesNothing ==
    [][(pc = "idle" /\ op' = "add_doc" /\ outcome' # "ok")
           => (documents' = documents /\ terms' = terms)]_vars

\* C6: search changes neither the document list nor the term map (its keys
\* and every posting list), and does not fail, whether or not the index
\* holds the query's terms.
C6_SearchChangesNothing ==
    [][(pc = "idle" /\ op' = "search")
           => (documents' = documents /\ terms' = terms /\ outcome' = "ok")]_vars

\* C6's case: a search for a term the index does not hold, next to one it
\* holds, has returned.
C6_Witness ==
    /\ Searched
    /\ results # <<>>
    /\ \E i \in 1..Len(tokens(query)) : tokens(query)[i] \notin Words

\* C7: every posting has a non-empty, strictly increasing offset list, and
\* a term's posting list holds at most one posting per document, in
\* document id order.
C7_Postings ==
    \A k \in 1..Len(terms) :
        LET locs == terms[k].locs
        IN  /\ \A n \in 1..Len(locs) :
                   /\ locs[n].offsets # <<>>
                   /\ \A i, j \in 1..Len(locs[n].offsets) :
                          i < j => locs[n].offsets[i] < locs[n].offsets[j]
            /\ \A m, n \in 1..Len(locs) :
                   m < n => locs[m].document < locs[n].document

\* C7's case: a term with postings in two documents, one of them with
\* several offsets.
C7_Witness ==
    \E k \in 1..Len(terms) :
        /\ Len(terms[k].locs) >= 2
        /\ \E n \in 1..Len(terms[k].locs) : Len(terms[k].locs[n].offsets) >= 2

\* The postings of the document with the given id.
PostingsOf(id) ==
    {loc \in UNION {EntryLocs(k) : k \in 1..Len(terms)} : loc.document = id}

\* C8: for every document D and every term with a posting in D,
\* 1 <= occurrences <= D.max_tf, and some term of a document that was added
\* has exactly D.max_tf occurrences; so 0 < tf <= 100, with equality exactly
\* when the occurrences are D.max_tf, and search never divides by zero.
C8_MaxTf ==
    /\ \A d \in 1..Len(documents) :
           LET D == documents[d]
           IN  /\ \A loc \in PostingsOf(D.id) :
                      /\ 1 <= Len(loc.offsets)
                      /\ Len(loc.offsets) <= D.max_tf
                      /\ 0 < tf(loc, documents)
                      /\ tf(loc, documents) <= 100 * ScoreScale
                      /\ tf(loc, documents) = 100 * ScoreScale
                             <=> Len(loc.offsets) = D.max_tf
               /\ PostingsOf(D.id) # {} =>
                      \E loc \in PostingsOf(D.id) : Len(loc.offsets) = D.max_tf
    /\ outcome # "ZeroDivisionError"

\* C8's case: a search has scored a document in which a term occurs less
\* often than the document's most frequent term.
C8_Witness ==
    /\ Searched
    /\ \E i \in 1..Len(results) :
           \E loc \in PostingsOf(results[i].document) :
               /\ \E q \in 1..Len(tokens(query)) :
                      \E k \in 1..Len(terms) :
                          /\ terms[k].word = tokens(query)[q]
                          /\ loc \in EntryLocs(k)
               /\ Len(loc.offsets) < documents[loc.document + 1].max_tf

\* A reader's split of a text file into lines, as str.splitlines() does it.
RECURSIVE SplitLines(_)
SplitLines(s) ==
    IF s = <<>> THEN <<>>
    ELSE IF \E i \in 1..Len(s) : s[i] = 10
         THEN LET i == CHOOSE i \in 1..Len(s) :
                           s[i] = 10 /\ \A j \in 1..(i - 1) : s[j] # 10
              IN  <<SubSeq(s, 1, i - 1)>>
                      \o SplitLines(SubSeq(s, i + 1, Len(s)))
         ELSE <<s>>

\* Every add_doc call so far has succeeded.
AllAdded == \A d \in 1..Len(documents) : documents[d].max_tf >= 1

\* C9: documents.txt holds one line per document, line i with the
\* name,filename,max_tf of document i, and directory.txt one line per term
\* in first-seen order: a reader splits them into as many records as there
\* are documents and terms.  (Stated for an index every document of which
\* was added successfully.)
C9_OneLinePerRecord ==
    (Saved /\ AllAdded) =>
        /\ SplitLines(documents_txt) =
               [k \in 1..Len(documents) |->
                    Format3(documents[k].name, documents[k].filename,
                            Digits(documents[k].max_tf))]
        /\ SplitLines(directory_txt) =
               [k \in 1..Len(directory) |->
                    Format3(directory[k][1], Digits(directory[k][2]),
                            Digits(directory[k][3]))]
        /\ Len(directory) = Len(terms)

\* C10: the directory entries, in first-seen term order, tile index.dat: the
\* first starts at 0, each next one where the one before ends, the last ends
\* at the length of the file, and each length counts the term's bytes, the
\* newline and the term's encoded postings.
C10_DirectoryTiles ==
    Saved =>
        /\ Len(directory) = Len(terms)
        /\ \A k \in 1..Len(directory) :
               /\ directory[k][1] = terms[k].word
               /\ directory[k][2] =
                      IF k = 1 THEN 0
                      ELSE directory[k - 1][2] + directory[k - 1][3]
               /\ directory[k][3] =
                      Len(Utf8(terms[k].word)) + 1
                          + SumOf([n \in 1..Len(terms[k].locs) |->
                                       Len(EncodeLoc(terms[k].locs[n], width))])
               /\ directory[k][2] + directory[k][3] <= Len(index_dat)
               /\ SubSeq(index_dat, directory[k][2] + 1,
                         directory[k][2] + directory[k][3])
                      = Bits(terms[k].word, terms[k].locs, width)
        /\ Len(index_dat) =
               IF directory = <<>> THEN 0
               ELSE directory[Len(directory)][2] + directory[Len(directory)][3]

\* C10's case: an index of two terms, one of them of more bytes than
\* characters and with postings in two documents, has been saved.
C10_Witness ==
    /\ Saved
    /\ Len(directory) >= 2
    /\ \E k \in 1..Len(terms) :
           /\ Len(Utf8(terms[k].word)) > Len(terms[k].word)
           /\ Len(terms[k].locs) >= 2

=============================================================================
